---- MODULE Spec2Model ----
(***************************************************************************)
(* ROW risk assessment workflow (examples/basic_workflow.py).              *)
(*                                                                         *)
(* Two specifications share this module:                                   *)
(*   Spec      the run of main(): corridor path resolution, corridor load, *)
(*             construction of the assessment, the five-stage workflow,    *)
(*             export of the bundle and the console summary;               *)
(*   NormSpec  convert_numpy_to_json applied (twice) to every value of a   *)
(*             bounded domain of nested Python values.                     *)
(***************************************************************************)
EXTENDS Integers, Sequences, FiniteSets, TLC

VARIABLES
    args,          \* parsed command line: [demo, corridor]
    source,        \* what gpd.read_file finds at args.corridor
    config_ok,     \* whether ROWRiskAssessment(...) can be constructed
    unwritable,    \* output files whose open()/save() raises
    pc,            \* position of main()
    corridor_path, \* main's local corridor_path
    corridor_gdf,  \* main's local corridor_gdf
    assessment,    \* main's local assessment
    stage,         \* index of the next stage of run_full_workflow
    results,       \* the bundle: stage name -> value or None
    status,        \* StageResult tag of every stage
    invoked,       \* stages whose backend has been called
    files,         \* state of every file of the output directory
    log,           \* diagnostics emitted through logger
    summary,       \* stages print_workflow_summary reported "Completed"
    exitCode,      \* value returned by main(), NoExit while running
    obj,           \* NormSpec: argument of convert_numpy_to_json
    ret,           \* NormSpec: its result
    ret2,          \* NormSpec: result of applying it to ret
    npc            \* NormSpec: position

vars == <<args, source, config_ok, unwritable, pc, corridor_path, corridor_gdf,
          assessment, stage, results, status, invoked, files, log, summary,
          exitCode, obj, ret, ret2, npc>>

mainVars == <<args, source, config_ok, unwritable, pc, corridor_path,
              corridor_gdf, assessment, stage, results, status, invoked,
              files, log, summary, exitCode>>

normVars == <<obj, ret, ret2, npc>>

(***************************************************************************)
(* Python values.  Every value is a record [kind, v].                      *)
(*   null, bool, num, str     plain JSON scalars                           *)
(*   list, dict               the containers the code recurses into        *)
(*   ndarray                  one-dimensional numeric numpy buffer         *)
(*   npnum, npbool            numpy scalar wrappers                        *)
(*   geom                     geometry handle (e.g. a shapely geometry)    *)
(*   tuple                    a Python tuple: not a list for isinstance    *)
(*   map                      map object of the reports stage; v tells     *)
(*                            whether it has a save attribute              *)
(***************************************************************************)
None == [kind |-> "null", v |-> 0]

Bool(b) == [kind |-> "bool", v |-> b]

Num(n) == [kind |-> "num", v |-> n]

Str(s) == [kind |-> "str", v |-> s]

List(items) == [kind |-> "list", v |-> items]

Tuple(items) == [kind |-> "tuple", v |-> items]

Dict(f) == [kind |-> "dict", v |-> f]

NdArray(buf) == [kind |-> "ndarray", v |-> buf]

NpNum(n) == [kind |-> "npnum", v |-> n]

NpBool(b) == [kind |-> "npbool", v |-> b]

Geom(id) == [kind |-> "geom", v |-> id]

MapObj(hasSave) == [kind |-> "map", v |-> hasSave]

(***************************************************************************)
(* numpy conversions used by convert_numpy_to_json.                        *)
(***************************************************************************)
\* variant: list(obj), which keeps the numpy scalars of the buffer
tolist_keeps_scalars(arr) ==
    List([i \in 1..Len(arr.v) |-> NpNum(arr.v[i])])

\* ndarray.tolist(): a list of plain Python numbers
tolist(arr) ==
    List([i \in 1..Len(arr.v) |-> Num(arr.v[i])])

\* numpy scalar .item(): the plain Python number
item(x) == Num(x.v)

\* bool(np.bool_)
bool(x) == Bool(x.v)

(***************************************************************************)
(* convert_numpy_to_json and variants of it with one branch changed.       *)
(***************************************************************************)
RECURSIVE convert_list_not_recursed(_)
\* variant: the list branch returns the list as it is
convert_list_not_recursed(o) ==
    CASE o.kind = "dict" ->
           Dict([k \in DOMAIN o.v |-> convert_list_not_recursed(o.v[k])])
      [] o.kind = "list" -> o
      [] o.kind = "ndarray" -> tolist(o)
      [] o.kind = "npnum" -> item(o)
      [] o.kind = "npbool" -> bool(o)
      [] OTHER -> o

RECURSIVE convert_else_str(_)
\* variant: the else branch returns str(obj)
convert_else_str(o) ==
    CASE o.kind = "dict" ->
           Dict([k \in DOMAIN o.v |-> convert_else_str(o.v[k])])
      [] o.kind = "list" ->
           List([i \in 1..Len(o.v) |-> convert_else_str(o.v[i])])
      [] o.kind = "ndarray" -> tolist(o)
      [] o.kind = "npnum" -> item(o)
      [] o.kind = "npbool" -> bool(o)
      [] o.kind \in {"null", "bool", "num", "str"} -> o
      [] OTHER -> Str(o.kind)

RECURSIVE convert_drops_null_entries(_)
\* variant: the dict branch filters out the entries whose value is None
convert_drops_null_entries(o) ==
    CASE o.kind = "dict" ->
           Dict([k \in {j \in DOMAIN o.v : o.v[j].kind # "null"} |->
                    convert_drops_null_entries(o.v[k])])
      [] o.kind = "list" ->
           List([i \in 1..Len(o.v) |-> convert_drops_null_entries(o.v[i])])
      [] o.kind = "ndarray" -> tolist(o)
      [] o.kind = "npnum" -> item(o)
      [] o.kind = "npbool" -> bool(o)
      [] OTHER -> o

RECURSIVE convert_numpy_to_json(_)
\* the isinstance chain of convert_numpy_to_json, in its order
convert_numpy_to_json(o) ==
    CASE o.kind = "dict" ->
           Dict([k \in DOMAIN o.v |-> convert_numpy_to_json(o.v[k])])
      [] o.kind = "list" ->
           List([i \in 1..Len(o.v) |-> convert_numpy_to_json(o.v[i])])
      [] o.kind = "ndarray" -> tolist(o)
      [] o.kind = "npnum" -> item(o)
      [] o.kind = "npbool" -> bool(o)
      [] OTHER -> o

(***************************************************************************)
(* json.dump(value, f): raises TypeError on a value the encoder does not   *)
(* know.  The encoder writes lists and tuples as arrays and dicts (the     *)
(* keys of this model are strings) as objects.                             *)
(***************************************************************************)
RECURSIVE json_serializable(_)
json_serializable(o) ==
    CASE o.kind \in {"null", "bool", "num", "str"} -> TRUE
      [] o.kind \in {"list", "tuple"} ->
           \A i \in 1..Len(o.v) : json_serializable(o.v[i])
      [] o.kind = "dict" ->
           \A k \in DOMAIN o.v : json_serializable(o.v[k])
      [] OTHER -> FALSE

\* with open(output_path, 'w') as f: json.dump(data, f, indent=2)
\* the file's state afterwards and whether an exception left the block
open_and_dump(data, path) ==
    IF path \in unwritable
    THEN [file |-> "absent", raised |-> TRUE]
    ELSE IF json_serializable(data)
         THEN [file |-> "written", raised |-> FALSE]
         ELSE [file |-> "partial", raised |-> TRUE]

save_risk_results(risk_data, output_path) ==
    open_and_dump(convert_numpy_to_json(risk_data), output_path)

\* variant: the write wrapped in a try block that swallows the exception
save_vegetation_swallows_error(veg_data, output_path) ==
    [file |-> open_and_dump(convert_numpy_to_json(veg_data),
                            output_path).file,
     raised |-> FALSE]

save_vegetation_results(veg_data, output_path) ==
    open_and_dump(convert_numpy_to_json(veg_data), output_path)

save_priority_results(priority_data, output_path) ==
    open_and_dump(convert_numpy_to_json(priority_data), output_path)

\* variant: save_interactive_map without the hasattr test: calling save on
\* an object that has none raises AttributeError
save_map_without_hasattr(map_obj, output_path) ==
    IF map_obj.kind # "null"
    THEN IF map_obj.kind = "map" /\ map_obj.v
         THEN IF output_path \in unwritable
              THEN [file |-> "absent", warn |-> {}, raised |-> TRUE]
              ELSE [file |-> "written", warn |-> {}, raised |-> FALSE]
         ELSE [file |-> "absent", warn |-> {}, raised |-> TRUE]
    ELSE [file |-> "absent", warn |-> {"warn_no_map"}, raised |-> FALSE]

\* save_interactive_map: the file's state, the warning logged (if any) and
\* whether map_obj.save raised
save_interactive_map(map_obj, output_path) ==
    IF map_obj.kind # "null"
    THEN IF map_obj.kind = "map" /\ map_obj.v
         THEN IF output_path \in unwritable
              THEN [file |-> "absent", warn |-> {}, raised |-> TRUE]
              ELSE [file |-> "written", warn |-> {}, raised |-> FALSE]
         ELSE [file |-> "absent", warn |-> {"warn_map_no_save"},
               raised |-> FALSE]
    ELSE [file |-> "absent", warn |-> {"warn_no_map"}, raised |-> FALSE]

(***************************************************************************)
(* The run of main().                                                      *)
(***************************************************************************)
NoExit == -1

\* the five stages in dependency order
StageOrder == <<"data", "vegetation", "risk", "priorities", "reports">>

Stages == {StageOrder[i] : i \in 1..Len(StageOrder)}

\* the output file main() gives each stage it exports
OutputFile ==
    [risk |-> "risk_assessment.json",
     vegetation |-> "vegetation_analysis.json",
     priorities |-> "maintenance_priorities.json",
     reports |-> "risk_map.html"]

DemoFile == "demo_corridor.geojson"

OutputFiles == {OutputFile[s] : s \in DOMAIN OutputFile} \cup {DemoFile}

\* most segments a corridor file of the model holds
MaxSegments == 2

\* coordinate reference systems a corridor file can carry; "None" is no CRS
CRSs == {"None", "EPSG:4326", "EPSG:3857"}

NotLoaded == [loaded |-> FALSE, segments |-> 0, crs |-> "None"]

\* nothing gpd.read_file can parse
NoContents == [parses |-> FALSE, segments |-> 0, crs |-> "None"]

\* what the stage backends can return: opaque nested values
AnalysisValues ==
    {Dict([a |-> Num(1)]),
     Dict([a |-> NdArray(<<1, 2>>), b |-> NpNum(1)]),
     Dict([a |-> Geom(1)])}

ReportValues ==
    {Dict([map |-> MapObj(TRUE)]),
     Dict([map |-> MapObj(FALSE)]),
     Dict([map |-> None]),
     Dict([summary |-> Str("s")])}

BackendValues(s) == IF s = "reports" THEN ReportValues ELSE AnalysisValues

\* results.get(key): None for a missing key
Get(d, key) == IF key \in DOMAIN d THEN d[key] ELSE None

MainInit ==
    /\ args \in [demo : BOOLEAN, corridor : {"none", "missing", "file"}]
    /\ source \in [parses : BOOLEAN, segments : 0..MaxSegments, crs : CRSs]
    \* --demo ignores --corridor; only an existing file has contents, and
    \* only a file that parses has segments and a CRS
    /\ args.demo => args.corridor = "none"
    /\ args.corridor # "file" => source = NoContents
    /\ ~source.parses => source = NoContents
    /\ config_ok \in BOOLEAN
    /\ unwritable \in SUBSET {OutputFile[s] : s \in DOMAIN OutputFile}
    /\ pc = "resolve_path"
    /\ corridor_path = "unset"
    /\ corridor_gdf = NotLoaded
    /\ assessment = [constructed |-> FALSE, row_corridor_path |-> "unset",
                     corridor |-> NotLoaded]
    /\ stage = 1
    /\ results = <<>>
    /\ status = [s \in Stages |-> "NotRun"]
    /\ invoked = {}
    /\ files = [f \in OutputFiles |-> "absent"]
    /\ log = {}
    /\ summary = {}
    /\ exitCode = NoExit

\* return <code> from main()
Return(code) ==
    /\ pc' = "done"
    /\ exitCode' = code

\* except Exception as e: logger.error("Workflow failed"); return 1
WorkflowFailed ==
    /\ log' = log \cup {"error_workflow_failed"}
    /\ Return(1)

\* if args.demo: create_sample_corridor_data(...) else args.corridor
ResolveCorridorPath ==
    /\ pc = "resolve_path"
    /\ IF args.demo
       THEN /\ files' = [files EXCEPT ![DemoFile] = "written"]
            /\ corridor_path' = "demo"
            /\ pc' = "check_exists"
            /\ UNCHANGED <<log, exitCode>>
       ELSE IF args.corridor = "none"
            THEN /\ log' = log \cup {"error_corridor_required"}
                 /\ Return(1)
                 /\ UNCHANGED <<files, corridor_path>>
            ELSE /\ corridor_path' = args.corridor
                 /\ pc' = "check_exists"
                 /\ UNCHANGED <<files, log, exitCode>>
    /\ UNCHANGED <<args, source, config_ok, unwritable, corridor_gdf,
                   assessment, stage, results, status, invoked, summary>>
    /\ UNCHANGED normVars

\* os.path.exists(corridor_path)
PathExists(path) == path \in {"demo", "file"}

\* if not os.path.exists(corridor_path): return 1
CheckCorridorExists ==
    /\ pc = "check_exists"
    /\ IF PathExists(corridor_path)
       THEN /\ pc' = "load"
            /\ UNCHANGED <<log, exitCode>>
       ELSE /\ log' = log \cup {"error_not_found"}
            /\ Return(1)
    /\ UNCHANGED <<args, source, config_ok, unwritable, corridor_path,
                   corridor_gdf, assessment, stage, results, status, invoked,
                   files, summary>>
    /\ UNCHANGED normVars

\* the corridor create_sample_corridor_data writes: one segment, EPSG:4326
DemoCorridor == [parses |-> TRUE, segments |-> 1, crs |-> "EPSG:4326"]

\* what gpd.read_file(path) finds: the demo file, or the user's file as the
\* environment chose it
ReadFile(path) == IF path = "demo" THEN DemoCorridor ELSE source

\* variant: the load block without the emptiness check
load_without_empty_check(read) ==
    IF ~read.parses
    THEN [raised |-> TRUE, warn |-> {}, gdf |-> NotLoaded]
    ELSE LET gdf == [loaded |-> TRUE, segments |-> read.segments,
                     crs |-> read.crs] IN
         IF gdf.crs = "None"
         THEN [raised |-> FALSE, warn |-> {"warn_no_crs"},
               gdf |-> [gdf EXCEPT !.crs = "EPSG:4326"]]
         ELSE [raised |-> FALSE, warn |-> {}, gdf |-> gdf]

\* variant: the load block without the CRS default
load_without_crs_default(read) ==
    IF ~read.parses
    THEN [raised |-> TRUE, warn |-> {}, gdf |-> NotLoaded]
    ELSE LET gdf == [loaded |-> TRUE, segments |-> read.segments,
                     crs |-> read.crs] IN
         IF gdf.segments = 0
         THEN [raised |-> TRUE, warn |-> {}, gdf |-> gdf]
         ELSE [raised |-> FALSE, warn |-> {}, gdf |-> gdf]

\* the try block that loads and validates the corridor: corridor_gdf after
\* it, the warning it logged and whether an exception reached the handler
load_and_validate(read) ==
    IF ~read.parses
    THEN [raised |-> TRUE, warn |-> {}, gdf |-> NotLoaded]
    ELSE LET gdf == [loaded |-> TRUE, segments |-> read.segments,
                     crs |-> read.crs] IN
         IF gdf.segments = 0
         THEN [raised |-> TRUE, warn |-> {}, gdf |-> gdf]
         ELSE IF gdf.crs = "None"
              THEN [raised |-> FALSE, warn |-> {"warn_no_crs"},
                    gdf |-> [gdf EXCEPT !.crs = "EPSG:4326"]]
              ELSE [raised |-> FALSE, warn |-> {}, gdf |-> gdf]

\* try: corridor_gdf = gpd.read_file(...) ... except: return 1
LoadCorridor ==
    /\ pc = "load"
    /\ LET r == load_and_validate(ReadFile(corridor_path)) IN
         /\ corridor_gdf' = r.gdf
         /\ IF r.raised
            THEN /\ log' = log \cup {"error_load_failed"}
                 /\ Return(1)
            ELSE /\ log' = log \cup r.warn
                 /\ pc' = "initialize"
                 /\ UNCHANGED exitCode
    /\ UNCHANGED <<args, source, config_ok, unwritable, corridor_path,
                   assessment, stage, results, status, invoked, files,
                   summary>>
    /\ UNCHANGED normVars

\* the corridor an object that is given only the path can analyse: what
\* reading that path yields, with the CRS the file has
corridor_from_path(path) ==
    [loaded |-> ReadFile(path).parses,
     segments |-> ReadFile(path).segments,
     crs |-> ReadFile(path).crs]

\* assessment = ROWRiskAssessment(row_corridor_path=corridor_path, ...)
InitializeAssessment ==
    /\ pc = "initialize"
    /\ IF config_ok
       THEN /\ assessment' = [constructed |-> TRUE,
                              row_corridor_path |-> corridor_path,
                              corridor |-> corridor_from_path(corridor_path)]
            /\ pc' = "workflow"
            /\ UNCHANGED <<log, exitCode>>
       ELSE /\ WorkflowFailed
            /\ UNCHANGED assessment
    /\ UNCHANGED <<args, source, config_ok, unwritable, corridor_path,
                   corridor_gdf, stage, results, status, invoked, files,
                   summary>>
    /\ UNCHANGED normVars

(***************************************************************************)
(* assessment.run_full_workflow(): the orchestrator and the stage runner.  *)
(***************************************************************************)
\* a backend call that raises
Raises == [kind |-> "raise", v |-> 0]

BackendOutcomes(s) == BackendValues(s) \cup {Raises}

\* index of a stage in the dependency chain
StageIndex(s) == CHOOSE i \in 1..Len(StageOrder) : StageOrder[i] = s

\* variant: a runner that calls the backend whatever its predecessor did
\* and records the stage of a failed predecessor as Failed
run_without_dependency_check(stageName, st, outcome) ==
    IF StageIndex(stageName) > 1
       /\ st[StageOrder[StageIndex(stageName) - 1]] # "Success"
    THEN [tag |-> "Failed", value |-> None, called |-> TRUE]
    ELSE IF outcome = Raises
         THEN [tag |-> "Failed", value |-> None, called |-> TRUE]
         ELSE [tag |-> "Success", value |-> outcome, called |-> TRUE]

\* StageRunner.run(stageName, context): the StageResult of a stage given the
\* results so far and what its backend would do
run(stageName, st, outcome) ==
    IF StageIndex(stageName) > 1
       /\ st[StageOrder[StageIndex(stageName) - 1]] # "Success"
    THEN [tag |-> "Skipped", value |-> None, called |-> FALSE]
    ELSE IF outcome = Raises
         THEN [tag |-> "Failed", value |-> None, called |-> TRUE]
         ELSE [tag |-> "Success", value |-> outcome, called |-> TRUE]

\* one step of the orchestrator: run the next stage, insert its entry
RunStage ==
    /\ pc = "workflow"
    /\ stage <= Len(StageOrder)
    /\ \E outcome \in BackendOutcomes(StageOrder[stage]) :
         LET s == StageOrder[stage]
             r == run(s, status, outcome) IN
           /\ status' = [status EXCEPT ![s] = r.tag]
           /\ results' = (s :> r.value) @@ results
           /\ invoked' = IF r.called THEN invoked \cup {s} ELSE invoked
    /\ stage' = stage + 1
    /\ UNCHANGED <<args, source, config_ok, unwritable, pc, corridor_path,
                   corridor_gdf, assessment, files, log, summary, exitCode>>
    /\ UNCHANGED normVars

\* variant: the orchestrator returns after any stage, the bundle incomplete
ReturnBundle_after_any_stage ==
    /\ pc = "workflow"
    /\ stage > 1
    /\ pc' = "save_risk"
    /\ UNCHANGED <<args, source, config_ok, unwritable, corridor_path,
                   corridor_gdf, assessment, stage, results, status, invoked,
                   files, log, summary, exitCode>>
    /\ UNCHANGED normVars

\* run_full_workflow returns the bundle to main()
ReturnBundle ==
    /\ pc = "workflow"
    /\ stage > Len(StageOrder)
    /\ pc' = "save_risk"
    /\ UNCHANGED <<args, source, config_ok, unwritable, corridor_path,
                   corridor_gdf, assessment, stage, results, status, invoked,
                   files, log, summary, exitCode>>
    /\ UNCHANGED normVars

(***************************************************************************)
(* Export: the four "if results.get(...) is not None" blocks of main().    *)
(***************************************************************************)
\* one export block: r is what the save function did to the file
ExportBlock(key, r, next) ==
    IF Get(results, key).kind # "null"
    THEN /\ files' = [files EXCEPT ![OutputFile[key]] = r.file]
         /\ IF r.raised
            THEN WorkflowFailed
            ELSE /\ pc' = next
                 /\ log' = log \cup r.warn
                 /\ UNCHANGED exitCode
    ELSE /\ pc' = next
         /\ UNCHANGED <<files, log, exitCode>>

NoWarn(r) == [file |-> r.file, raised |-> r.raised, warn |-> {}]

SaveRisk ==
    /\ pc = "save_risk"
    /\ ExportBlock("risk",
          NoWarn(save_risk_results(Get(results, "risk"),
                                   OutputFile["risk"])),
          "save_vegetation")
    /\ UNCHANGED <<args, source, config_ok, unwritable, corridor_path,
                   corridor_gdf, assessment, stage, results, status, invoked,
                   summary>>
    /\ UNCHANGED normVars

SaveVegetation ==
    /\ pc = "save_vegetation"
    /\ ExportBlock("vegetation",
          NoWarn(save_vegetation_results(Get(results, "vegetation"),
                                         OutputFile["vegetation"])),
          "save_priorities")
    /\ UNCHANGED <<args, source, config_ok, unwritable, corridor_path,
                   corridor_gdf, assessment, stage, results, status, invoked,
                   summary>>
    /\ UNCHANGED normVars

SavePriorities ==
    /\ pc = "save_priorities"
    /\ ExportBlock("priorities",
          NoWarn(save_priority_results(Get(results, "priorities"),
                                       OutputFile["priorities"])),
          "save_map")
    /\ UNCHANGED <<args, source, config_ok, unwritable, corridor_path,
                   corridor_gdf, assessment, stage, results, status, invoked,
                   summary>>
    /\ UNCHANGED normVars

\* save_interactive_map(results['reports'].get('map'), map_output)
SaveMap ==
    /\ pc = "save_map"
    /\ ExportBlock("reports",
          save_interactive_map(Get(Get(results, "reports").v, "map"),
                               OutputFile["reports"]),
          "finish")
    /\ UNCHANGED <<args, source, config_ok, unwritable, corridor_path,
                   corridor_gdf, assessment, stage, results, status, invoked,
                   summary>>
    /\ UNCHANGED normVars

\* variant: a summary that tests the value, as the export blocks do
summary_of_non_null_entries(res) ==
    {s \in Stages : Get(res, s).kind # "null"}

\* print_workflow_summary: the stages it prints as "Completed"
print_workflow_summary(res) == {s \in Stages : s \in DOMAIN res}

\* logger.success(...); print_workflow_summary(results, output_dir); return 0
Finish ==
    /\ pc = "finish"
    /\ log' = log \cup {"success_completed"}
    /\ summary' = print_workflow_summary(results)
    /\ Return(0)
    /\ UNCHANGED <<args, source, config_ok, unwritable, corridor_path,
                   corridor_gdf, assessment, stage, results, status, invoked,
                   files>>
    /\ UNCHANGED normVars

MainNext ==
    \/ ResolveCorridorPath
    \/ CheckCorridorExists
    \/ LoadCorridor
    \/ InitializeAssessment
    \/ RunStage
    \/ ReturnBundle
    \/ SaveRisk
    \/ SaveVegetation
    \/ SavePriorities
    \/ SaveMap
    \/ Finish

\* the normalizer is not running while main() is modelled
NormIdle ==
    /\ obj = None
    /\ ret = None
    /\ ret2 = None
    /\ npc = "idle"

Init == MainInit /\ NormIdle

Next == MainNext

Spec == Init /\ [][Next]_vars

(***************************************************************************)
(* convert_numpy_to_json on a bounded domain of nested values.             *)
(***************************************************************************)
\* longest list, tuple or dict of scalars
MaxLen == 2

\* levels of containers wrapped around them
MaxDepth == 1

Keys == {"a", "b"}

Atoms ==
    {None, Bool(TRUE), Num(1), Str("s"), NpNum(1), NpBool(TRUE), Geom(1),
     NdArray(<<>>), NdArray(<<1, 2>>)}

SeqsOver(S, n) == UNION {[1..k -> S] : k \in 0..n}

MapsOver(S, n) ==
    UNION {[K -> S] : K \in {J \in SUBSET Keys : Cardinality(J) <= n}}

Flat ==
    {List(q) : q \in SeqsOver(Atoms, MaxLen)}
    \cup {Tuple(q) : q \in SeqsOver(Atoms, MaxLen)}
    \cup {Dict(f) : f \in MapsOver(Atoms, MaxLen)}

\* a scalar or an array followed by a container
Mixed ==
    {List(<<a, c>>) : a \in {Num(1), NdArray(<<1, 2>>)}, c \in Flat}

Wrap(S) ==
    {List(<<x>>) : x \in S} \cup {Tuple(<<x>>) : x \in S}
    \cup {Dict([a |-> x]) : x \in S}

RECURSIVE Nested(_)
Nested(d) ==
    IF d = 0 THEN Atoms \cup Flat \cup Mixed
    ELSE LET N == Nested(d - 1) IN N \cup Wrap(N)

\* main() is not running while the normalizer is modelled
MainIdle ==
    /\ args = [demo |-> FALSE, corridor |-> "none"]
    /\ source = NoContents
    /\ config_ok = TRUE
    /\ unwritable = {}
    /\ pc = "idle"
    /\ corridor_path = "unset"
    /\ corridor_gdf = NotLoaded
    /\ assessment = [constructed |-> FALSE, row_corridor_path |-> "unset",
                     corridor |-> NotLoaded]
    /\ stage = 1
    /\ results = <<>>
    /\ status = [s \in Stages |-> "NotRun"]
    /\ invoked = {}
    /\ files = [f \in OutputFiles |-> "absent"]
    /\ log = {}
    /\ summary = {}
    /\ exitCode = NoExit

NormInit ==
    /\ MainIdle
    /\ obj \in Nested(MaxDepth)
    /\ ret = None
    /\ ret2 = None
    /\ npc = "start"

\* ret = convert_numpy_to_json(obj)
Normalize ==
    /\ npc = "start"
    /\ ret' = convert_numpy_to_json(obj)
    /\ npc' = "once"
    /\ UNCHANGED <<obj, ret2>>
    /\ UNCHANGED mainVars

\* ret2 = convert_numpy_to_json(ret)
NormalizeAgain ==
    /\ npc = "once"
    /\ ret2' = convert_numpy_to_json(ret)
    /\ npc' = "twice"
    /\ UNCHANGED <<obj, ret>>
    /\ UNCHANGED mainVars

NormNext == Normalize \/ NormalizeAgain

NormSpec == NormInit /\ [][NormNext]_vars

(***************************************************************************)
(* Properties of the run of main().                                        *)
(***************************************************************************)
\* the stages main() writes as structured documents
DocumentStages == {"vegetation", "risk", "priorities"}

\* a structured document of stage s has been written completely
DocWritten(s) ==
    IF s \in DOMAIN OutputFile THEN files[OutputFile[s]] = "written"
    ELSE FALSE

\* writing the document of stage s would not itself fail
CanWrite(s) ==
    /\ OutputFile[s] \notin unwritable
    /\ json_serializable(convert_numpy_to_json(results[s]))

\* the corridor source of the claim C3: missing path, parser error or no
\* segments
UnloadableSource ==
    /\ ~args.demo
    /\ \/ args.corridor = "missing"
       \/ args.corridor = "file" /\ (~source.parses \/ source.segments = 0)

\* C1: once a stage of the chain data, vegetation, risk, priorities,
\* reports has ended Failed or Skipped, every later stage that has ended
\* is Skipped: its backend was not invoked, it carries no value and it is
\* not Failed.
C1_DownstreamSkipped ==
    \A i, j \in 1..Len(StageOrder) :
        (i < j /\ status[StageOrder[i]] \in {"Failed", "Skipped"}
               /\ status[StageOrder[j]] # "NotRun")
        => /\ status[StageOrder[j]] = "Skipped"
           /\ StageOrder[j] \notin invoked
           /\ results[StageOrder[j]] = None

\* C1 witness: the vegetation backend raised and the run went on to record
\* risk, priorities and reports as Skipped
C1_Witness ==
    /\ pc = "done"
    /\ status["data"] = "Success"
    /\ status["vegetation"] = "Failed"
    /\ "vegetation" \in invoked
    /\ status["reports"] = "Skipped"

\* C2: a run in which some stage backend raised still ends with exit code 0
\* and with the document of every successful exported stage written.
C2_StageFailureContained ==
    (pc = "done" /\ \E s \in Stages : status[s] = "Failed")
    => /\ exitCode = 0
       /\ \A s \in DocumentStages : status[s] = "Success" => DocWritten(s)

\* C3: for a corridor source that is missing, empty or unparseable no stage
\* is ever run: main() never gets past the load, the assessment is never
\* constructed, the bundle stays empty, no backend is invoked, no stage
\* artifact is written, and the run can only end with exit code 1.
C3_LoadFailureRunsNothing ==
    UnloadableSource
    => /\ pc \in {"resolve_path", "check_exists", "load", "done"}
       /\ ~assessment.constructed
       /\ stage = 1
       /\ results = <<>>
       /\ invoked = {}
       /\ \A s \in DOMAIN OutputFile : files[OutputFile[s]] = "absent"
       /\ pc = "done" => exitCode = 1

\* C3 witness: a file that parses to zero segments ended the run with 1
C3_Witness ==
    /\ pc = "done"
    /\ exitCode = 1
    /\ args.corridor = "file"
    /\ ~args.demo
    /\ source.parses
    /\ source.segments = 0
    /\ corridor_gdf.loaded

\* the load block has finished without an exception
LoadFinished ==
    /\ pc \notin {"resolve_path", "check_exists", "load"}
    /\ "error_load_failed" \notin log
    /\ corridor_gdf.loaded

\* C4: a non-empty source that parses is loaded with a defined CRS: its
\* own, or EPSG:4326 with a warning when it has none; the load does not
\* fail and main() goes on to construct the assessment.
C4_CrsDefined ==
    /\ LoadFinished
       => /\ corridor_gdf.crs # "None"
          /\ corridor_gdf.segments > 0
          /\ IF ReadFile(corridor_path).crs = "None"
             THEN corridor_gdf.crs = "EPSG:4326" /\ "warn_no_crs" \in log
             ELSE corridor_gdf.crs = ReadFile(corridor_path).crs
                  /\ "warn_no_crs" \notin log
    /\ (/\ pc \notin {"resolve_path", "check_exists", "load"}
        /\ corridor_path = "file"
        /\ source.parses
        /\ source.segments > 0)
       => /\ LoadFinished
          /\ pc = "done" => (assessment.constructed \/ ~config_ok)

\* C4 witness: a source without CRS was loaded and the stages are running
C4_Witness ==
    /\ pc = "workflow"
    /\ stage > 1
    /\ corridor_path = "file"
    /\ source.crs = "None"
    /\ corridor_gdf.crs = "EPSG:4326"
    /\ "warn_no_crs" \in log

C6_ExportIndependent ==
    (pc = "done" /\ stage > Len(StageOrder))
    => /\ exitCode = 0
       /\ \A s \in DocumentStages :
            (status[s] = "Success" /\ CanWrite(s)) => DocWritten(s)

(***************************************************************************)
(* Properties of convert_numpy_to_json.                                    *)
(***************************************************************************)
\* a NormalizedValue: null, boolean, plain number, string, list of
\* NormalizedValue, or string-keyed mapping to NormalizedValue
RECURSIVE IsNormalizedValue(_)
IsNormalizedValue(o) ==
    CASE o.kind \in {"null", "bool", "num", "str"} -> TRUE
      [] o.kind = "list" ->
           \A i \in 1..Len(o.v) : IsNormalizedValue(o.v[i])
      [] o.kind = "dict" ->
           \A k \in DOMAIN o.v : IsNormalizedValue(o.v[k])
      [] OTHER -> FALSE

\* a value built only of plain scalars, lists, dicts, numeric arrays and
\* numpy scalar wrappers
RECURSIVE Supported(_)
Supported(o) ==
    CASE o.kind \in {"null", "bool", "num", "str", "ndarray", "npnum",
                     "npbool"} -> TRUE
      [] o.kind = "list" -> \A i \in 1..Len(o.v) : Supported(o.v[i])
      [] o.kind = "dict" -> \A k \in DOMAIN o.v : Supported(o.v[k])
      [] OTHER -> FALSE

ValueKinds ==
    {"null", "bool", "num", "str", "list", "tuple", "dict", "ndarray",
     "npnum", "npbool", "geom", "map"}

\* the kinds no branch of the isinstance chain converts
UnconvertedKinds == ValueKinds \ {"dict", "list", "ndarray", "npnum", "npbool"}

\* y is x with every value of an unconverted kind, at any depth the
\* recursion reaches, left as it is
RECURSIVE PassedThrough(_, _)
PassedThrough(x, y) ==
    CASE x.kind \in UnconvertedKinds -> y = x
      [] x.kind = "list" ->
           /\ y.kind = "list"
           /\ Len(y.v) = Len(x.v)
           /\ \A i \in 1..Len(x.v) : PassedThrough(x.v[i], y.v[i])
      [] x.kind = "dict" ->
           /\ y.kind = "dict"
           /\ DOMAIN y.v = DOMAIN x.v
           /\ \A k \in DOMAIN x.v : PassedThrough(x.v[k], y.v[k])
      [] OTHER -> TRUE

\* y has the keys of every dict and the length of every list of x, each
\* entry being the conversion of the entry of x at its place
RECURSIVE SameStructure(_, _)
SameStructure(x, y) ==
    CASE x.kind = "list" ->
           /\ y.kind = "list"
           /\ Len(y.v) = Len(x.v)
           /\ \A i \in 1..Len(x.v) :
                /\ y.v[i] = convert_numpy_to_json(x.v[i])
                /\ SameStructure(x.v[i], y.v[i])
      [] x.kind = "dict" ->
           /\ y.kind = "dict"
           /\ DOMAIN y.v = DOMAIN x.v
           /\ \A k \in DOMAIN x.v :
                /\ y.v[k] = convert_numpy_to_json(x.v[k])
                /\ SameStructure(x.v[k], y.v[k])
      [] OTHER -> TRUE

\* a geometry handle occurs in the value
RECURSIVE HasGeometry(_)
HasGeometry(o) ==
    CASE o.kind = "geom" -> TRUE
      [] o.kind \in {"list", "tuple"} ->
           \E i \in 1..Len(o.v) : HasGeometry(o.v[i])
      [] o.kind = "dict" -> \E k \in DOMAIN o.v : HasGeometry(o.v[k])
      [] OTHER -> FALSE

\* C7 as stated: the result of convert_numpy_to_json is JSON-safe for
\* every input: no array, no numpy scalar and no geometry handle is left
\* at any depth, so json.dump accepts it.
C7_OutputJsonSafe ==
    npc # "start" => json_serializable(ret)

\* C7 amended: the result is a NormalizedValue for every input built of
\* plain scalars, lists, dicts, numeric arrays and numpy scalar wrappers;
\* a geometry handle in the input is still in the result, which is then
\* not JSON-safe.
C7_SupportedOutputNormalized ==
    npc # "start"
    => /\ Supported(obj) => IsNormalizedValue(ret)
       /\ HasGeometry(obj) => (HasGeometry(ret) /\ ~json_serializable(ret))

\* C7 witness: an array and numpy scalars nested in a list and a dict have
\* become plain lists and numbers
C7_Witness ==
    /\ npc = "once"
    /\ obj = List(<<NdArray(<<1, 2>>),
                    Dict([a |-> NpNum(1), b |-> NpBool(TRUE)])>>)
    /\ ret = List(<<List(<<Num(1), Num(2)>>),
                    Dict([a |-> Num(1), b |-> Bool(TRUE)])>>)

\* C8: convert_numpy_to_json returns a value for every input, and a value
\* of a kind it does not convert, at the top or nested in lists and dicts,
\* is in the result unchanged.
C8_TotalPassThrough ==
    npc # "start" => (ret.kind \in ValueKinds /\ PassedThrough(obj, ret))

\* C8 witness: a tuple holding an array, nested in a list, came back as it
\* was
C8_Witness ==
    /\ npc = "once"
    /\ obj = List(<<Tuple(<<NdArray(<<1, 2>>)>>)>>)
    /\ ret = obj

\* C9: applying convert_numpy_to_json to its own result changes nothing,
\* and a NormalizedValue is returned as it is.
C9_Idempotent ==
    /\ npc = "twice" => ret2 = ret
    /\ (npc # "start" /\ IsNormalizedValue(obj)) => ret = obj

\* C9 witness: an input the first application changed and the second
\* did not
C9_Witness ==
    /\ npc = "twice"
    /\ obj = Dict([a |-> List(<<NdArray(<<1, 2>>), NpNum(1)>>)])
    /\ ret # obj
    /\ ret2 = ret

SomeArtifactWritten ==
    \E s \in DOMAIN OutputFile : files[OutputFile[s]] # "absent"

\* the console summary has been printed
SummaryPrinted == summary # {} \/ "success_completed" \in log

\* run_full_workflow has returned the complete bundle to main()
BundleReturned ==
    /\ pc \in {"save_risk", "save_vegetation", "save_priorities", "save_map",
               "finish", "done"}
    /\ stage > Len(StageOrder)
    /\ DOMAIN results = Stages
    /\ \A s \in Stages : status[s] # "NotRun"

\* C11: no stage artifact is written and no summary is printed before
\* run_full_workflow has returned the complete bundle: while main() is
\* loading, initializing or running stages the output directory holds no
\* artifact and nothing has been printed.
C11_NoOutputBeforeBundle ==
    /\ (SomeArtifactWritten \/ SummaryPrinted) => BundleReturned
    /\ pc \in {"resolve_path", "check_exists", "load", "initialize",
               "workflow"}
       => (~SomeArtifactWritten /\ ~SummaryPrinted)

\* C11 witness: the bundle is back, the risk document has just been
\* written, the summary is not printed yet
C11_Witness ==
    /\ pc = "save_vegetation"
    /\ BundleReturned
    /\ files[OutputFile["risk"]] = "written"
    /\ ~SummaryPrinted

\* C12: the corridor the assessment analyses is the one main() loaded and
\* validated, the CRS default included.
C12_ValidatedCorridorHandedOver ==
    assessment.constructed => assessment.corridor = corridor_gdf

\* the reports entry of the bundle carries a value
ReportsPresent == Get(results, "reports").kind = "dict"

\* results['reports'].get('map')
ReportsMap == Get(Get(results, "reports").v, "map")

\* C13: when the reports entry is present, the map export step goes by
\* the shape of the map object: an object with save is saved through it
\* (the map document is written unless save itself raises); an absent
\* object or one without save only logs a warning, writes nothing and
\* raises nothing; main() then finishes with exit code 0.
C13_MapShapeNeverFails ==
    [][/\ (pc = "save_map" /\ ReportsPresent)
          => IF ReportsMap.kind = "map" /\ ReportsMap.v
             THEN IF OutputFile["reports"] \in unwritable
                  THEN files'[OutputFile["reports"]] = "absent"
                  ELSE /\ files'[OutputFile["reports"]] = "written"
                       /\ pc' = "finish"
                       /\ log' = log
             ELSE /\ pc' = "finish"
                  /\ exitCode' = NoExit
                  /\ files' = files
                  /\ log' = log \cup {IF ReportsMap.kind = "null"
                                      THEN "warn_no_map"
                                      ELSE "warn_map_no_save"}
       /\ pc = "finish" => (pc' = "done" /\ exitCode' = 0)]_vars

\* C13 witness: a map object without save ended in a warning, no map
\* document and exit code 0
C13_Witness ==
    /\ pc = "done"
    /\ exitCode = 0
    /\ ReportsPresent
    /\ ReportsMap = MapObj(FALSE)
    /\ "warn_map_no_save" \in log
    /\ files[OutputFile["reports"]] = "absent"

\* the bundles with keys K whose entries in N are None, the others a value
BundleOver(K, N) == [s \in K |-> IF s \in N THEN None ELSE Dict([a |-> Num(1)])]

\* C14: print_workflow_summary reports a stage Completed exactly when its
\* key is in the bundle, whatever the value; an artifact exists only for an
\* entry that is not None.  So after a run that ended with exit code 0
\* every one of vegetation, risk, priorities with a written document is
\* reported Completed, and one whose entry is None is reported Completed
\* and has no document.
C14_SummaryByKeyArtifactByValue ==
    /\ \A K \in SUBSET Stages :
          /\ print_workflow_summary(BundleOver(K, K)) = K
          /\ print_workflow_summary(BundleOver(K, {})) = K
    /\ \A s \in DOMAIN OutputFile :
          files[OutputFile[s]] # "absent"
          => (s \in DOMAIN results /\ results[s].kind # "null")
    /\ (pc = "done" /\ exitCode = 0)
       => /\ summary = DOMAIN results
          /\ \A s \in DocumentStages :
                /\ DocWritten(s) => s \in summary
                /\ (s \in DOMAIN results /\ results[s].kind = "null")
                   => (s \in summary /\ files[OutputFile[s]] = "absent")

\* C14 witness: the risk backend raised; the run ended with exit code 0,
\* the summary reports risk and priorities Completed, neither has a
\* document, vegetation has one
C14_Witness ==
    /\ pc = "done"
    /\ exitCode = 0
    /\ status["risk"] = "Failed"
    /\ results["risk"] = None
    /\ {"vegetation", "risk", "priorities"} \subseteq summary
    /\ files[OutputFile["vegetation"]] = "written"
    /\ files[OutputFile["risk"]] = "absent"
    /\ files[OutputFile["priorities"]] = "absent"

====
